---- MODULE Spec2Model ----
(***************************************************************************)
(* Model of the resume analysis tool: the section scorer (analyzeResume   *)
(* and calculateSectionScore of backend-api.js), the request handler of    *)
(* backend-api.js, and the ResumeAnalyzer component of                     *)
(* preview-resume-analyzer.tsx.                                            *)
(***************************************************************************)
EXTENDS Integers, Sequences, FiniteSets

VARIABLES
    text,        \* scorer: the input of analyzeResume
    result,      \* scorer: <<>> before the call, <<AnalysisResult>> after it
    now,         \* server: the value Date.now() returns
    pc,          \* server: where each invocation of the handler stands
    resumeFile,  \* server: parts[0] of each invocation, <<>> while unset
    reqAnalysis, \* server: the local analysis of each invocation, <<>> while unset
    blobName,    \* server: the local blobName of each invocation, <<>> while unset
    res,         \* server: context.res of each invocation, <<>> while unset
    resWrites,   \* server: how often context.res was assigned
    blobs,       \* server: the 'resumes' container of the object store
    items,       \* server: the 'Analyses' container of the document store
    idConflict,  \* server: whether that container refuses an id it already holds
    log,         \* server: the steps each invocation ran, with their outcome
    file,        \* client: useState file, <<>> for null
    analysis,    \* client: useState analysis, <<>> for null
    loading,     \* client: useState loading
    history,     \* client: useState history
    error,       \* client: useState error, <<>> for null
    inflight,    \* client: the fetches that have not settled
    started,     \* client: how many fetches were started
    clock        \* client: the value Date.now() returns

scorerVars == <<text, result>>
serverVars ==
    <<now, pc, resumeFile, reqAnalysis, blobName, res, resWrites, blobs, items, idConflict, log>>
clientVars == <<file, analysis, loading, history, error, inflight, started, clock>>
vars == <<scorerVars, serverVars, clientVars>>

(***************************************************************************)
(* Texts.  A text is a sequence of tokens, each a run of characters:       *)
(*   mark  s : a substring matched by the pattern of section s ("email:")  *)
(*   words n : n words of plain letters joined by single spaces            *)
(*   sp      : one space                                                   *)
(*   nl    n : n consecutive newline characters                            *)
(*   verb  n : n action verbs in lower case written without a gap          *)
(*   VERB  n : the same in upper case                                      *)
(***************************************************************************)
Mark(s) == [k |-> "mark", s |-> s, n |-> 1]
Words(n) == [k |-> "words", s |-> "", n |-> n]
Sp == [k |-> "sp", s |-> "", n |-> 1]
Nl(n) == [k |-> "nl", s |-> "", n |-> n]
Verb(n) == [k |-> "verb", s |-> "", n |-> n]
VERB(n) == [k |-> "VERB", s |-> "", n |-> n]

\* Object.entries(sections): the six sections in insertion order.
Sections == <<"contact", "education", "experience", "skills", "projects", "achievements">>

SectionNames == {Sections[i] : i \in 1..Len(Sections)}

\* \s of the regular expressions: the tokens made of whitespace.
IsSpace(t) == t.k \in {"sp", "nl"}

RECURSIVE SumN(_, _)
SumN(s, kinds) ==
    IF s = <<>> THEN 0
    ELSE (IF Head(s).k \in kinds THEN Head(s).n ELSE 0) + SumN(Tail(s), kinds)

\* The number of matches of /\s+/ in s: the maximal runs of whitespace.
SpaceRuns(s) ==
    SumN(s, {"words"}) - Cardinality({i \in 1..Len(s) : s[i].k = "words"})
    + Cardinality({i \in 1..Len(s) : IsSpace(s[i]) /\ (i = 1 \/ ~IsSpace(s[i-1]))})

\* s.split(/\s+/).length: one piece more than there are separators ("" gives [""]).
SplitSpaceLength(s) == SpaceRuns(s) + 1

\* pattern.test(text): the pattern of section sec matches somewhere.
MatchAt(s, sec) == {i \in 1..Len(s) : s[i].k = "mark" /\ s[i].s = sec}

PatternTest(s, sec) == MatchAt(s, sec) # {}

Min(S) == CHOOSE x \in S : \A y \in S : x <= y

\* text.split(pattern)[1]: what lies between the first and the second match
\* of the pattern; <<>> stands for undefined (no match).
SplitPatternSecond(s, sec) ==
    IF MatchAt(s, sec) = {} THEN <<>>
    ELSE LET first == Min(MatchAt(s, sec))
             later == {i \in MatchAt(s, sec) : i > first}
             stop == IF later = {} THEN Len(s) + 1 ELSE Min(later)
         IN  SubSeq(s, first + 1, stop - 1)

\* piece.split(/\n\n/)[0]: what precedes the first two consecutive newlines.
SplitBlankFirst(s) ==
    LET hit == {i \in 1..Len(s) :
                   /\ s[i].k = "nl"
                   /\ (s[i].n >= 2 \/ (i < Len(s) /\ s[i+1].k = "nl"))}
    IN  IF hit = {} THEN s ELSE SubSeq(s, 1, Min(hit) - 1)

\* text.split(pattern)[1]?.split(/\n\n/)[0] || ''
SectionContent(s, sec) == SplitBlankFirst(SplitPatternSecond(s, sec))

calculateSectionScore(exists, wordCount) ==
    IF ~exists THEN 0
    ELSE IF wordCount < 20 THEN 40
    ELSE IF wordCount < 50 THEN 70
    ELSE IF wordCount < 100 THEN 90
    ELSE 100

\* The messages, by template: t names the template, sec and n fill it.
Msg(t, sec, n) == [t |-> t, sec |-> sec, n |-> n]

\* One pass of the loop over the sections: the message pushed for sec.
SectionMessage(hasSection, sec, wordCount) ==
    IF ~hasSection THEN Msg("Add", sec, 0)
    ELSE IF wordCount < 20 THEN Msg("Expand", sec, 0)
    ELSE Msg("Strong", sec, wordCount)

IsRecommendation(m) == m.t \in {"Add", "Expand", "Brief", "Condense", "MoreVerbs"}

\* text.toLowerCase()
ToLowerCase(s) == [i \in 1..Len(s) |-> IF s[i].k = "VERB" THEN Verb(s[i].n) ELSE s[i]]

\* A null match counted as one match for each of the seven verbs.
ActionVerbCountNullAsMatch(s) ==
    IF SumN(ToLowerCase(s), {"verb"}) = 0 THEN 7 ELSE SumN(ToLowerCase(s), {"verb"})

\* The reduce over actionVerbs: the matches of the seven verbs in the lowered text.
ActionVerbCount(s) == SumN(ToLowerCase(s), {"verb"})

\* Math.floor in the place of Math.round.
MathFloor(num, den) == num \div den

\* Math.round(num / den) for num >= 0, den > 0: the nearest integer, halves up.
MathRound(num, den) == (2 * num + den) \div (2 * den)

RECURSIVE SumScores(_, _)
SumScores(scores, i) ==
    IF i = 0 THEN 0 ELSE scores[Sections[i]] + SumScores(scores, i - 1)

\* The for loop of analyzeResume from section i on, acc the three collections.
RECURSIVE SectionLoop(_, _, _)
SectionLoop(s, i, acc) ==
    IF i > Len(Sections) THEN acc
    ELSE LET sec == Sections[i]
             hasSection == PatternTest(s, sec)
             wordCount == SplitSpaceLength(SectionContent(s, sec))
             m == SectionMessage(hasSection, sec, wordCount)
         IN  SectionLoop(s, i + 1,
                 [scores |-> [x \in DOMAIN acc.scores \cup {sec} |->
                                 IF x = sec THEN calculateSectionScore(hasSection, wordCount)
                                 ELSE acc.scores[x]],
                  findings |-> IF IsRecommendation(m) THEN acc.findings
                               ELSE Append(acc.findings, m),
                  recommendations |-> IF IsRecommendation(m)
                                      THEN Append(acc.recommendations, m)
                                      ELSE acc.recommendations])

\* The whole-document checks: total words, then action verbs.
OverallChecks(s, acc) ==
    LET totalWords == SplitSpaceLength(s)
        r1 == IF totalWords < 200 THEN Append(acc.recommendations, Msg("Brief", "", 0))
              ELSE IF totalWords > 1000
                   THEN Append(acc.recommendations, Msg("Condense", "", 0))
                   ELSE acc.recommendations
        count == ActionVerbCount(s)
    IN  [scores |-> acc.scores,
         findings |-> IF count < 5 THEN acc.findings
                      ELSE Append(acc.findings, Msg("GoodVerbs", "", count)),
         recommendations |-> IF count < 5 THEN Append(r1, Msg("MoreVerbs", "", 0))
                             ELSE r1]

analyzeResume(s) ==
    LET acc == OverallChecks(s, SectionLoop(s, 1,
                   [scores |-> <<>>, findings |-> <<>>, recommendations |-> <<>>]))
    IN  [overallScore |-> MathRound(SumScores(acc.scores, Len(Sections)),
                                    Cardinality(DOMAIN acc.scores)),
         scores |-> acc.scores,
         findings |-> acc.findings,
         recommendations |-> acc.recommendations]

(***************************************************************************)
(* The texts the scorer is run on.                                         *)
(***************************************************************************)
MaxLen == 3

WordCounts == {1, 19, 49, 99, 1000}

Tokens ==
    {Mark(s) : s \in SectionNames} \cup {Words(n) : n \in WordCounts}
    \cup {Sp, Nl(1), Nl(2), Verb(1), VERB(4)}

ShortTexts == UNION {[1..n -> Tokens] : n \in 0..MaxLen}

\* A resume with every section, each with w words under its heading.
FullResume(w) ==
    <<Mark("contact"), Sp, Words(w), Nl(2), Mark("education"), Sp, Words(w), Nl(2),
      Mark("experience"), Sp, Words(w), Nl(2), Mark("skills"), Sp, Words(w), Nl(2),
      Mark("projects"), Sp, Words(w), Nl(2), Mark("achievements"), Sp, Words(w)>>

\* "Email: x Phone: y Address: z" on one line, then an education section.
ContactLine ==
    <<Mark("contact"), Sp, Words(1), Sp, Mark("contact"), Sp, Words(1), Sp,
      Mark("contact"), Sp, Words(19), Nl(2), Mark("education"), Nl(1), Words(49)>>

SampleTexts == {FullResume(1), FullResume(19), FullResume(49), FullResume(99), ContactLine}

Texts == ShortTexts \cup SampleTexts

(***************************************************************************)
(* The request handler (module.exports of api/analyze-resume).             *)
(***************************************************************************)
MaxReqs == 2

MaxTime == 2

Reqs == 1..MaxReqs

\* The uploaded files: parts[0] with its filename and data.
Files == {[filename |-> "resume.pdf", data |-> "d1"], [filename |-> "cv.txt", data |-> "d2"]}

\* What textract makes of a file's data when it succeeds.
TextOf(f) == IF f.data = "d1" THEN FullResume(19) ELSE <<>>

\* The error messages the collaborators fail with, by step.
Errors ==
    [parse |-> {"Cannot read property 'data' of undefined"},
     extract |-> {"unsupported file type", "corrupt file"},
     upload |-> {"blob upload failed"},
     create |-> {"item create failed"},
     conflict |-> {"Entity with the specified id already exists in the system."}]

\* `${Date.now()}-${resumeFile.filename}`
BlobNameOf(t, f) == [t |-> t, filename |-> f.filename]

\* blockBlobClient.upload: the blob of that name is created or overwritten.
Upload(store, name, data) ==
    {b \in store : b.name # name} \cup {[name |-> name, data |-> data]}

\* The record of lines 40-46, with the name computed afresh.
RecordOfFreshName(r) ==
    [id |-> BlobNameOf(now, resumeFile[r][1]), fileName |-> resumeFile[r][1].filename,
     blobUrl |-> BlobNameOf(now, resumeFile[r][1]), analysis |-> reqAnalysis[r][1]]

\* The record of lines 40-46 (blockBlobClient.url ends in the blob's name; the
\* timestamp string plays no part in what follows and is left out).
RecordOf(r) ==
    [id |-> blobName[r][1], fileName |-> resumeFile[r][1].filename,
     blobUrl |-> blobName[r][1], analysis |-> reqAnalysis[r][1]]

\* The catch clause with the status of a client error and no details.
CatchResponseBare(err) ==
    [status |-> 400, body |-> [error |-> "Failed to process resume", details |-> ""]]

\* The catch clause: context.res of lines 56-62.
CatchResponse(err) ==
    [status |-> 500, body |-> [error |-> "Failed to process resume", details |-> err]]

\* context.res of lines 50-53.
OkResponse(a) == [status |-> 200, body |-> a]

Logged(r, step, ok, err) == Append(log[r], [step |-> step, ok |-> ok, err |-> err])

\* A step of invocation r throws err: control passes to the catch clause.
Throw(r, step, err) ==
    /\ log' = [log EXCEPT ![r] = Logged(r, step, FALSE, err)]
    /\ res' = [res EXCEPT ![r] = <<CatchResponse(err)>>]
    /\ resWrites' = [resWrites EXCEPT ![r] = @ + 1]
    /\ pc' = [pc EXCEPT ![r] = "done"]

\* The runtime invokes the handler: lines 23-29 up to the await of extractText.
\* Invocations are numbered in the order they arrive.
Invoke(r) ==
    /\ pc[r] = "idle"
    /\ \A q \in Reqs : q < r => pc[q] # "idle"
    /\ \/ \E f \in Files :
            /\ resumeFile' = [resumeFile EXCEPT ![r] = <<f>>]
            /\ log' = [log EXCEPT ![r] = Logged(r, "parse", TRUE, "")]
            /\ pc' = [pc EXCEPT ![r] = "extracting"]
            /\ UNCHANGED <<res, resWrites>>
       \/ \E e \in Errors.parse :
            /\ Throw(r, "parse", e)
            /\ UNCHANGED resumeFile
    /\ UNCHANGED <<now, reqAnalysis, blobName, blobs, items, idConflict>>
    /\ UNCHANGED <<scorerVars, clientVars>>

\* textract calls back: lines 29-37 up to the await of upload.
ExtractDone(r) ==
    /\ pc[r] = "extracting"
    /\ \/ /\ reqAnalysis' = [reqAnalysis EXCEPT ![r] = <<analyzeResume(TextOf(resumeFile[r][1]))>>]
          /\ blobName' = [blobName EXCEPT ![r] = <<BlobNameOf(now, resumeFile[r][1])>>]
          /\ log' = [log EXCEPT ![r] = Logged(r, "extract", TRUE, "")]
          /\ pc' = [pc EXCEPT ![r] = "uploading"]
          /\ UNCHANGED <<res, resWrites>>
       \/ \E e \in Errors.extract :
            /\ Throw(r, "extract", e)
            /\ UNCHANGED <<reqAnalysis, blobName>>
    /\ UNCHANGED <<now, resumeFile, blobs, items, idConflict>>
    /\ UNCHANGED <<scorerVars, clientVars>>

\* The upload settles: lines 37-48 up to the await of items.create.
UploadDone(r) ==
    /\ pc[r] = "uploading"
    /\ \/ /\ blobs' = Upload(blobs, blobName[r][1], resumeFile[r][1].data)
          /\ log' = [log EXCEPT ![r] = Logged(r, "upload", TRUE, "")]
          /\ pc' = [pc EXCEPT ![r] = "creating"]
          /\ UNCHANGED <<res, resWrites>>
       \/ \E e \in Errors.upload :
            /\ Throw(r, "upload", e)
            /\ UNCHANGED blobs
    /\ UNCHANGED <<now, resumeFile, reqAnalysis, blobName, items, idConflict>>
    /\ UNCHANGED <<scorerVars, clientVars>>

\* items.create(record) is refused: the container holds the id already, in
\* the same logical partition.
Conflicts(record) == idConflict /\ \E i \in 1..Len(items) : items[i].id = record.id

\* items.create settles: lines 48-53.  It fails when the store refuses the
\* item, and may fail for any other reason.
CreateDone(r) ==
    /\ pc[r] = "creating"
    /\ \/ /\ ~Conflicts(RecordOf(r))
          /\ items' = Append(items, RecordOf(r))
          /\ log' = [log EXCEPT ![r] = Logged(r, "create", TRUE, "")]
          /\ res' = [res EXCEPT ![r] = <<OkResponse(reqAnalysis[r][1])>>]
          /\ resWrites' = [resWrites EXCEPT ![r] = @ + 1]
          /\ pc' = [pc EXCEPT ![r] = "done"]
       \/ \E e \in IF Conflicts(RecordOf(r)) THEN Errors.conflict ELSE Errors.create :
            /\ Throw(r, "create", e)
            /\ UNCHANGED items
    /\ UNCHANGED <<now, resumeFile, reqAnalysis, blobName, blobs, idConflict>>
    /\ UNCHANGED <<scorerVars, clientVars>>

\* A millisecond passes on the server.
Tick ==
    /\ now < MaxTime
    /\ now' = now + 1
    /\ UNCHANGED <<pc, resumeFile, reqAnalysis, blobName, res, resWrites, blobs, items, idConflict, log>>
    /\ UNCHANGED <<scorerVars, clientVars>>

\* The state at module load: no invocation yet, both containers empty.
ServerInit ==
    /\ now = 0
    /\ idConflict = TRUE
    /\ pc = [r \in Reqs |-> "idle"]
    /\ resumeFile = [r \in Reqs |-> <<>>]
    /\ reqAnalysis = [r \in Reqs |-> <<>>]
    /\ blobName = [r \in Reqs |-> <<>>]
    /\ res = [r \in Reqs |-> <<>>]
    /\ resWrites = [r \in Reqs |-> 0]
    /\ blobs = {}
    /\ items = <<>>
    /\ log = [r \in Reqs |-> <<>>]

(***************************************************************************)
(* The ResumeAnalyzer component.  React commits the state updates of an     *)
(* event handler before the next event is dispatched, so each handler, and  *)
(* each continuation after an await, is one step.                           *)
(***************************************************************************)
MaxFetches == 3

\* What the server answers for file f, with the file it was computed for.
ResultFor(f) == [of |-> f, body |-> analyzeResume(TextOf(f))]

\* err.message of a fetch that fails: a response that is not ok, a network
\* failure, a body that is no JSON.
FetchErrors == {"Analysis failed: Internal Server Error", "Failed to fetch"}

\* The button without the loading flag in disabled.
ButtonEnabledIgnoringLoading == file # <<>>

\* disabled={!file || loading} of the analyze button.
ButtonEnabled == file # <<>> /\ ~loading

\* handleFileChange with event.target.files[0] = f.
handleFileChange(f) ==
    /\ file' = <<f>>
    /\ analysis' = <<>>
    /\ error' = <<>>
    /\ UNCHANGED <<loading, history, inflight, started, clock>>
    /\ UNCHANGED <<scorerVars, serverVars>>

\* A click on the analyze button: analyzeResume up to the await of fetch.  snap
\* records file, analysis and history as they were when the request started.
ClickAnalyze ==
    /\ ButtonEnabled
    /\ started < MaxFetches
    /\ file # <<>>
    /\ loading' = TRUE
    /\ error' = <<>>
    /\ inflight' = inflight \cup
          {[id |-> started + 1, file |-> file[1],
            snap |-> [file |-> file, analysis |-> analysis, history |-> history]]}
    /\ started' = started + 1
    /\ UNCHANGED <<file, analysis, history, clock>>
    /\ UNCHANGED <<scorerVars, serverVars>>

\* The history after a failure, with the failed attempt listed.
HistoryAfterFailureListed(q) ==
    <<[id |-> clock, fileName |-> q.file.filename, analysis |-> ResultFor(q.file)]>> \o history

\* The history after a failure: the catch clause does not touch it.
HistoryAfterFailure(q) == history

\* The fetch of q resolves with an ok response and its JSON: lines 111-123,
\* then finally.
FetchOk(q) ==
    /\ analysis' = <<ResultFor(q.file)>>
    /\ history' = <<[id |-> clock, fileName |-> q.file.filename,
                     analysis |-> ResultFor(q.file)]>> \o history
    /\ loading' = FALSE
    /\ inflight' = inflight \ {q}
    /\ UNCHANGED <<file, error, started, clock>>
    /\ UNCHANGED <<scorerVars, serverVars>>

\* The fetch of q ends in the catch clause with message m, then finally.
FetchFails(q, m) ==
    /\ error' = <<m>>
    /\ loading' = FALSE
    /\ history' = HistoryAfterFailure(q)
    /\ inflight' = inflight \ {q}
    /\ UNCHANGED <<file, analysis, started, clock>>
    /\ UNCHANGED <<scorerVars, serverVars>>

\* The delete button of a history entry: prev.filter(h => h.id !== item.id).
RemoveFromHistory(id) ==
    /\ \E i \in 1..Len(history) : history[i].id = id
    /\ history' = SelectSeq(history, LAMBDA h : h.id # id)
    /\ UNCHANGED <<file, analysis, loading, error, inflight, started, clock>>
    /\ UNCHANGED <<scorerVars, serverVars>>

\* A millisecond passes in the browser.
ClientTick ==
    /\ clock < MaxTime
    /\ clock' = clock + 1
    /\ UNCHANGED <<file, analysis, loading, history, error, inflight, started>>
    /\ UNCHANGED <<scorerVars, serverVars>>

ClientInit ==
    /\ file = <<>>
    /\ analysis = <<>>
    /\ loading = FALSE
    /\ history = <<>>
    /\ error = <<>>
    /\ inflight = {}
    /\ started = 0
    /\ clock = 0

(***************************************************************************)
(* The three specifications: the scorer applied to a text, the handler     *)
(* serving invocations, the component driven by the user.                  *)
(***************************************************************************)
Analyze ==
    /\ result = <<>>
    /\ result' = <<analyzeResume(text)>>
    /\ UNCHANGED <<text, serverVars, clientVars>>

ScorerInit ==
    /\ text \in Texts
    /\ result = <<>>
    /\ ServerInit
    /\ ClientInit

ScorerNext == Analyze

ScorerSpec == ScorerInit /\ [][ScorerNext]_vars

\* The container is deployed with either kind of partition key.
HandlerInit ==
    /\ text = <<>>
    /\ result = <<>>
    /\ now = 0
    /\ idConflict \in BOOLEAN
    /\ pc = [r \in Reqs |-> "idle"]
    /\ resumeFile = [r \in Reqs |-> <<>>]
    /\ reqAnalysis = [r \in Reqs |-> <<>>]
    /\ blobName = [r \in Reqs |-> <<>>]
    /\ res = [r \in Reqs |-> <<>>]
    /\ resWrites = [r \in Reqs |-> 0]
    /\ blobs = {}
    /\ items = <<>>
    /\ log = [r \in Reqs |-> <<>>]
    /\ ClientInit

HandlerNext ==
    \/ \E r \in Reqs : Invoke(r)
    \/ \E r \in Reqs : ExtractDone(r)
    \/ \E r \in Reqs : UploadDone(r)
    \/ \E r \in Reqs : CreateDone(r)
    \/ Tick

HandlerSpec == HandlerInit /\ [][HandlerNext]_vars

ClientNext ==
    \/ \E f \in Files : handleFileChange(f)
    \/ ClickAnalyze
    \/ \E q \in inflight : FetchOk(q)
    \/ \E q \in inflight : \E m \in FetchErrors : FetchFails(q, m)
    \/ \E id \in 0..MaxTime : RemoveFromHistory(id)
    \/ ClientTick

ComponentInit ==
    /\ text = <<>>
    /\ result = <<>>
    /\ ServerInit
    /\ ClientInit

ClientSpec == ComponentInit /\ [][ClientNext]_vars

(***************************************************************************)
(* Properties of the scorer.                                               *)
(***************************************************************************)
ScoreSum(r) ==
    r.scores["contact"] + r.scores["education"] + r.scores["experience"]
    + r.scores["skills"] + r.scores["projects"] + r.scores["achievements"]

\* C1: the result of analyzeResume has exactly the six section keys in scores,
\* each score is one of 0, 40, 70, 90, 100, and overallScore is the sum of the six
\* scores divided by 6 and rounded to the nearest integer, within 0..100.
C1_ScoresAndOverall ==
    result # <<>> =>
        LET r == result[1] IN
        /\ DOMAIN r.scores = {"contact", "education", "experience", "skills",
                              "projects", "achievements"}
        /\ \A sec \in DOMAIN r.scores : r.scores[sec] \in {0, 40, 70, 90, 100}
        /\ 6 * r.overallScore - 3 <= ScoreSum(r)
        /\ ScoreSum(r) < 6 * r.overallScore + 3
        /\ r.overallScore \in 0..100

\* A mean that is no integer and rounds up (40 / 6), and the full score.
C1_Witness ==
    /\ result # <<>>
    /\ ScoreSum(result[1]) = 40
    /\ result[1].overallScore = 7

\* The words of a segment as a reader counts them: the maximal runs of
\* characters that are not whitespace.
WordsIn(s) ==
    SumN(s, {"words"})
    + Cardinality({i \in 1..Len(s) : s[i].k \in {"mark", "verb", "VERB"}})
    - Cardinality({i \in 2..Len(s) : ~IsSpace(s[i]) /\ ~IsSpace(s[i-1])})

\* The segment that follows the first marker of sec up to the next blank line.
SegmentAfterMarker(s, sec) ==
    SplitBlankFirst(SubSeq(s, Min(MatchAt(s, sec)) + 1, Len(s)))

StepScore(n) ==
    IF n < 20 THEN 40 ELSE IF n < 50 THEN 70 ELSE IF n < 100 THEN 90 ELSE 100

\* C2: a section's score is 0 if its marker is absent; otherwise, with n the
\* number of words in the segment that follows the first marker up to the next
\* blank line, it is 40 if n < 20, 70 if n < 50, 90 if n < 100 and 100 otherwise.
C2_ScoreByWords ==
    result # <<>> =>
        \A sec \in SectionNames :
            result[1].scores[sec] =
                IF MatchAt(text, sec) = {} THEN 0
                ELSE StepScore(WordsIn(SegmentAfterMarker(text, sec)))

\* What the code computes: the score steps on the number of pieces that
\* splitting on whitespace gives for the text between the first and the second
\* marker of the section, cut at the first blank line.
ScoreBySplitPieces ==
    result # <<>> =>
        \A sec \in SectionNames :
            result[1].scores[sec] =
                IF MatchAt(text, sec) = {} THEN 0
                ELSE StepScore(SpaceRuns(SectionContent(text, sec)) + 1)

\* The message of section sec in the result r, as a set (one element expected).
SectionMessages(r, sec) ==
    {r.findings[i] : i \in {j \in 1..Len(r.findings) : r.findings[j].sec = sec}}
    \cup {r.recommendations[i] :
            i \in {j \in 1..Len(r.recommendations) : r.recommendations[j].sec = sec}}

\* The per-section entries of a list of messages, in order.
PerSection(list) == SelectSeq(list, LAMBDA m : m.sec # "")

\* list names the sections in increasing section order, each at most once.
InSectionOrder(list) ==
    \A i, j \in 1..Len(list) :
        i < j => \E a, b \in 1..Len(Sections) :
                    a < b /\ Sections[a] = list[i].sec /\ Sections[b] = list[j].sec

\* C3: one message per section, in section order: "Add" iff the section is
\* absent, "Expand" iff it is present with fewer than 20 words, "Strong"
\* otherwise, the first two as recommendations and the last as a finding.
C3_OneMessagePerSection ==
    result # <<>> =>
        LET r == result[1] IN
        /\ Len(PerSection(r.findings)) + Len(PerSection(r.recommendations)) = Len(Sections)
        /\ InSectionOrder(PerSection(r.findings))
        /\ InSectionOrder(PerSection(r.recommendations))
        /\ \A sec \in SectionNames :
            LET kind == IF MatchAt(text, sec) = {} THEN "Add"
                        ELSE IF WordsIn(SegmentAfterMarker(text, sec)) < 20 THEN "Expand"
                        ELSE "Strong"
            IN  /\ \E m \in SectionMessages(r, sec) : SectionMessages(r, sec) = {m} /\ m.t = kind
                /\ \A i \in 1..Len(r.findings) :
                      r.findings[i].sec = sec => r.findings[i].t = "Strong"
                /\ \A i \in 1..Len(r.recommendations) :
                      r.recommendations[i].sec = sec => r.recommendations[i].t \in {"Add", "Expand"}

\* What the code does: the same with the message decided by the score (0 "Add",
\* 40 "Expand", 70, 90 or 100 "Strong").
MessagesFollowScores ==
    result # <<>> =>
        LET r == result[1] IN
        /\ Len(PerSection(r.findings)) + Len(PerSection(r.recommendations)) = Len(Sections)
        /\ InSectionOrder(PerSection(r.findings))
        /\ InSectionOrder(PerSection(r.recommendations))
        /\ \A sec \in SectionNames :
            LET kind == IF r.scores[sec] = 0 THEN "Add"
                        ELSE IF r.scores[sec] = 40 THEN "Expand"
                        ELSE "Strong"
            IN  /\ \E m \in SectionMessages(r, sec) : SectionMessages(r, sec) = {m} /\ m.t = kind
                /\ \A i \in 1..Len(r.findings) :
                      r.findings[i].sec = sec => r.findings[i].t = "Strong"
                /\ \A i \in 1..Len(r.recommendations) :
                      r.recommendations[i].sec = sec => r.recommendations[i].t \in {"Add", "Expand"}

\* C8: for the empty string all six scores are 0, overallScore is 0, there is
\* no finding, and the recommendations are the six "Add" in section order, then
\* the brevity one, then the action verb one.
C8_EmptyText ==
    (text = <<>> /\ result # <<>>) =>
        /\ result[1].overallScore = 0
        /\ result[1].scores = [sec \in SectionNames |-> 0]
        /\ result[1].findings = <<>>
        /\ result[1].recommendations =
              <<Msg("Add", "contact", 0), Msg("Add", "education", 0),
                Msg("Add", "experience", 0), Msg("Add", "skills", 0),
                Msg("Add", "projects", 0), Msg("Add", "achievements", 0),
                Msg("Brief", "", 0), Msg("MoreVerbs", "", 0)>>

C8_Witness ==
    /\ text = <<>>
    /\ result # <<>>
    /\ Len(result[1].recommendations) = 8

(***************************************************************************)
(* Properties of the request handler.                                      *)
(***************************************************************************)
StepOrder == <<"parse", "extract", "upload", "create">>

\* Invocation r ran all four steps and each succeeded.
AllStepsOk(r) ==
    /\ Len(log[r]) = Len(StepOrder)
    /\ \A i \in 1..Len(log[r]) : log[r][i].ok

\* C4: an invocation gets exactly one response: 200 with the analysis as body
\* iff parsing, extraction, upload and record creation all succeed; when a step
\* fails no later step runs and the response is 500 with the fixed error text
\* and the failing step's message as details.
C4_OneResponse ==
    \A r \in Reqs :
        /\ resWrites[r] = (IF pc[r] = "done" THEN 1 ELSE 0)
        /\ (res[r] # <<>>) <=> (pc[r] = "done")
        /\ Len(log[r]) <= Len(StepOrder)
        /\ \A i \in 1..Len(log[r]) :
              /\ log[r][i].step = StepOrder[i]
              /\ (i < Len(log[r]) => log[r][i].ok)
        /\ pc[r] = "done" =>
              /\ (res[r][1].status = 200) <=> AllStepsOk(r)
              /\ AllStepsOk(r) =>
                    res[r][1].body = analyzeResume(TextOf(resumeFile[r][1]))
              /\ ~AllStepsOk(r) =>
                    /\ ~log[r][Len(log[r])].ok
                    /\ res[r][1].status = 500
                    /\ res[r][1].body = [error |-> "Failed to process resume",
                                         details |-> log[r][Len(log[r])].err]

\* One invocation answered 200 and another answered 500 after its upload failed.
C4_Witness ==
    \E r1, r2 \in Reqs :
        /\ pc[r1] = "done" /\ res[r1][1].status = 200
        /\ pc[r2] = "done" /\ res[r2][1].status = 500
        /\ log[r2][Len(log[r2])].step = "upload"

\* C5: when the same file is submitted k times and every submission's steps
\* succeed, the object store holds k blobs and the document store k records,
\* also when two submissions read the same Date.now().
C5_NewBlobAndRecordEveryTime ==
    LET subs == {r \in Reqs : pc[r] # "idle"} IN
    (/\ subs # {}
     /\ \A r \in subs : pc[r] = "done" /\ AllStepsOk(r)
     /\ \A r1, r2 \in subs : resumeFile[r1] = resumeFile[r2])
    => /\ Cardinality(blobs) = Cardinality(subs)
       /\ Len(items) = Cardinality(subs)

\* What holds: the same with submissions that read different values of Date.now().
NewBlobPerTimestamp ==
    LET subs == {r \in Reqs : pc[r] # "idle"} IN
    (/\ subs # {}
     /\ \A r \in subs : pc[r] = "done" /\ AllStepsOk(r)
     /\ \A r1, r2 \in subs : r1 # r2 => blobName[r1][1].t # blobName[r2][1].t)
    => /\ Cardinality(blobs) = Cardinality(subs)
       /\ Len(items) = Cardinality(subs)

\* With a container that refuses a known id, of two submissions that computed
\* the same blob name at most one is answered 200.
SameNameSecondRefused ==
    idConflict =>
        \A r1, r2 \in Reqs :
            (r1 # r2 /\ blobName[r1] # <<>> /\ blobName[r1] = blobName[r2])
            => ~(AllStepsOk(r1) /\ AllStepsOk(r2))

HasStep(r, step, ok) == \E i \in 1..Len(log[r]) : log[r][i].step = step /\ log[r][i].ok = ok

\* Every record's blob is in the store; what is in the stores was written by an
\* invocation whose upload, or creation, succeeded; an invocation whose
\* extraction failed ran neither.
RecordsHaveBlobs ==
    /\ \A i \in 1..Len(items) : \E b \in blobs : b.name = items[i].id
    /\ \A b \in blobs : \E r \in Reqs : blobName[r] = <<b.name>> /\ HasStep(r, "upload", TRUE)
    /\ \A i \in 1..Len(items) :
          \E r \in Reqs : blobName[r] = <<items[i].id>> /\ HasStep(r, "create", TRUE)
    /\ \A r \in Reqs :
          HasStep(r, "extract", FALSE) =>
              /\ ~HasStep(r, "upload", TRUE) /\ ~HasStep(r, "upload", FALSE)
              /\ ~HasStep(r, "create", TRUE) /\ ~HasStep(r, "create", FALSE)
              /\ blobName[r] = <<>>

\* A step that adds a record finds its blob in the store already; blobs and
\* records are never removed.
BlobBeforeRecord ==
    /\ Len(items') >= Len(items)
    /\ SubSeq(items', 1, Len(items)) = items
    /\ \A i \in (Len(items) + 1)..Len(items') : \E b \in blobs : b.name = items'[i].id
    /\ \A b \in blobs : \E c \in blobs' : c.name = b.name

\* C9: every record has the name of a blob uploaded before the record was
\* created, and an invocation whose extraction fails writes neither; a blob can
\* be left without a record, as C9_Witness shows.
C9_RecordNeverWithoutBlob == []RecordsHaveBlobs /\ [][BlobBeforeRecord]_vars

\* A blob without a record, left by a failed creation, beside a record with its blob.
C9_Witness ==
    /\ \E r \in Reqs :
          /\ pc[r] = "done"
          /\ HasStep(r, "create", FALSE)
          /\ \E b \in blobs : b.name = blobName[r][1]
          /\ \A i \in 1..Len(items) : items[i].id # blobName[r][1]
    /\ Len(items) > 0

(***************************************************************************)
(* Properties of the component.                                            *)
(***************************************************************************)
OneInFlight ==
    /\ Cardinality(inflight) <= 1
    /\ loading <=> (inflight # {})

StartsOnlyWhenIdle ==
    (inflight' \ inflight # {}) => (~loading /\ file # <<>>)

\* C6: at most one request is in flight; one is started only when loading is
\* false and a file is selected; loading is true while the request is out.
C6_AtMostOneInFlight == []OneInFlight /\ [][StartsOnlyWhenIdle]_vars

\* A request in flight that was started after an earlier one had settled.
C6_Witness ==
    /\ Cardinality(inflight) = 1
    /\ loading
    /\ started >= 2

\* The step ends request q in the catch clause.
EndsInFailure(q) == q \in inflight /\ q \notin inflight' /\ error' # <<>>

\* C7 as stated: after a failed request error is set, loading is false, and
\* file, analysis and history are what they were before the request started.
C7_StateAsBeforeRequest ==
    [][\A q \in inflight :
          EndsInFailure(q) =>
              /\ ~loading'
              /\ file' = q.snap.file
              /\ analysis' = q.snap.analysis
              /\ history' = q.snap.history
              /\ ButtonEnabled']_vars

\* C7, amended: starting a request and handling its failure change none of
\* file, analysis and history; after the failure error is set, loading is false
\* and the button is enabled.
C7_FailureLeavesStateAlone ==
    [][/\ \A q \in inflight :
             EndsInFailure(q) =>
                 /\ ~loading'
                 /\ file' = file /\ analysis' = analysis /\ history' = history
                 /\ ButtonEnabled'
       /\ \A q \in inflight' \ inflight :
             /\ q.snap = [file |-> file, analysis |-> analysis, history |-> history]
             /\ file' = file /\ analysis' = analysis /\ history' = history]_vars

\* A failure handled with an earlier analysis on display and in the history.
C7_Witness ==
    /\ error # <<>>
    /\ ~loading
    /\ inflight = {}
    /\ analysis # <<>>
    /\ history # <<>>
    /\ ButtonEnabled

\* C10: the analysis on display is the server's result for the selected file.
C10_AnalysisOfSelectedFile ==
    analysis # <<>> => file = <<analysis[1].of>>

====
